---- MODULE Spec2Model ----
(***************************************************************************)
(* Model of the conversational assistant of rag-elasticsearch-bot:         *)
(*   src/chat.py   - the command-line variant (tools es_status, RAG_Search) *)
(*   src/server.py - the web variant (tools es_status, es_doc_count,        *)
(*                   last_user_message, RAG_Search, Semantic_Search,        *)
(*                   POST /chat)                                            *)
(*                                                                         *)
(* A Python string is a sequence of pieces (TLA+ strings); concatenation   *)
(* is \o, the empty string is << >>.  "\n" is always a piece of its own,    *)
(* so that split('\n') and strip() work on pieces.                          *)
(* A Python value handed back by a handler is [tag, text]: tag "str" for a  *)
(* string, "bool" for True/False (text <<"True">> / <<"False">>), and tag   *)
(* "raise" for an exception that leaves the handler (text = str(e)).        *)
(***************************************************************************)
EXTENDS Integers, Sequences, FiniteSets, TLC

VARIABLES
    variant,      \* "cli" (src/chat.py) or "web" (src/server.py)
    indexExists,  \* the index named by ELASTIC_INDEX exists in the backend
    envIndexSet,  \* ELASTIC_INDEX is set in the environment
    index,        \* the documents matching the query "widgets", in rank order
    memory,       \* ConversationBufferMemory.chat_memory.messages
    pc,           \* front door: "idle", "agent", "exited", "crashed"; "direct"
                  \* and "returned" when a handler is called as a plain function
    userInput,    \* the utterance the agent is working on
    steps,        \* tool calls made by the agent in this turn
    lastObs,      \* the last tool observation of this turn (<< >> if none)
    lastCall,     \* the last tool invocation, see NoCall / Invoke
    lastTurn,     \* how the last finished turn ended, see NoTurn
    readLog,      \* utterances accepted by the front door, in order
    fwdLog,       \* utterances forwarded to agent.run, in order
    outLog        \* answers emitted by the front door, in order

vars == <<variant, indexExists, envIndexSet, index, memory, pc,
          userInput, steps, lastObs, lastCall, lastTurn, readLog, fwdLog, outLog>>

(***************************************************************************)
(* Bounds of the model.                                                    *)
(***************************************************************************)
\* turns a session may take
MaxTurns == 2
\* tool calls the agent may make in one turn
MaxSteps == 1
\* largest number of matching documents of the search-function specification
MaxHits == 11

(***************************************************************************)
(* Program constants.                                                      *)
(***************************************************************************)
\* RAGSearchInput.size default and the fallback of getattr(input, 'size', 10)
DefaultSize == 10
\* "size": 3 of the command-line RAG_Search request
CliSize == 3
\* k=5 of Semantic_Search
SemanticK == 5

(***************************************************************************)
(* Values and strings.                                                     *)
(***************************************************************************)
Min(a, b) == IF a <= b THEN a ELSE b

StrVal(t) == [tag |-> "str", text |-> t]
BoolVal(b) == [tag |-> "bool", text |-> IF b THEN <<"True">> ELSE <<"False">>]
Raise(msg) == [tag |-> "raise", text |-> msg]

\* sep.join(parts), parts a sequence of strings
RECURSIVE Join(_, _)
Join(sep, parts) ==
    IF parts = << >> THEN << >>
    ELSE IF Len(parts) = 1 THEN parts[1]
    ELSE parts[1] \o sep \o Join(sep, Tail(parts))

IsSpace(p) == p \in {" ", "\n"}

\* s.strip()
RECURSIVE LStrip(_)
LStrip(s) == IF s /= << >> /\ IsSpace(Head(s)) THEN LStrip(Tail(s)) ELSE s
RECURSIVE RStrip(_)
RStrip(s) ==
    IF s /= << >> /\ IsSpace(s[Len(s)]) THEN RStrip(SubSeq(s, 1, Len(s) - 1)) ELSE s
Strip(s) == RStrip(LStrip(s))

\* s.split('\n'): always at least one line
RECURSIVE SplitLines(_)
SplitLines(s) ==
    IF \A i \in 1..Len(s) : s[i] /= "\n" THEN <<s>>
    ELSE LET k == CHOOSE i \in 1..Len(s) :
                      s[i] = "\n" /\ \A j \in 1..(i - 1) : s[j] /= "\n"
         IN <<SubSeq(s, 1, k - 1)>> \o SplitLines(SubSeq(s, k + 1, Len(s)))

\* line.startswith('User:')
StartsWithUser(line) == line /= << >> /\ Head(line) = "User:"

\* str.lower() on the pieces the inputs are made of
LowerPiece(p) ==
    CASE p = "EXIT" -> "exit"
      [] p = "Exit" -> "exit"
      [] p = "QUIT" -> "quit"
      [] p = "Quit" -> "quit"
      [] OTHER -> p
Lower(s) == [i \in 1..Len(s) |-> LowerPiece(s[i])]

(***************************************************************************)
(* Documents of the index.  A field of a _source mapping is [t, v]: t is    *)
(* "str" or "num" (a JSON number; v is its literal), or "absent".           *)
(***************************************************************************)
Absent == [t |-> "absent", v |-> ""]
S(x) == [t |-> "str", v |-> x]
N(x) == [t |-> "num", v |-> x]

Fields == {"content", "text", "productDesc", "tradingCountry", "countryName", "date",
           "hSCode", "registryNew", "fOBValueUSD", "quantity", "unit"}

EmptySource == [f \in Fields |-> Absent]

\* a complete shipment record
ShipmentDoc ==
    [EmptySource EXCEPT !.content = S("widgets from UK"), !.text = S("widgets from UK"),
                        !.productDesc = S("widgets"), !.tradingCountry = S("UK"),
                        !.countryName = S("Nigeria"), !.date = S("2024-03-05T00:00:00"),
                        !.hSCode = S("8479"), !.registryNew = S("R-17"),
                        !.fOBValueUSD = N("1200.5"), !.quantity = N("40"),
                        !.unit = S("KG")]
\* a record with a text body and a plain date only
NoteDoc ==
    [EmptySource EXCEPT !.content = S("widget note"),
                        !.text = S("widget note"), !.productDesc = S("gadgets"),
                        !.date = S("2024-03-06")]
\* a record whose FOB value was indexed as text
TextFobDoc == [ShipmentDoc EXCEPT !.fOBValueUSD = S("1,200.50")]
\* a record whose date was indexed as epoch milliseconds
NumDateDoc == [ShipmentDoc EXCEPT !.date = N("1709596800000")]

Hit(doc) == [hasSource |-> TRUE, source |-> doc]
\* a hit returned without "_source" (source disabled in the index mapping)
NoSourceHit == [hasSource |-> FALSE, source |-> EmptySource]

GoodHits == {Hit(ShipmentDoc), Hit(NoteDoc)}
OddHits == {Hit(TextFobDoc), Hit(NumDateDoc), NoSourceHit}

\* doc.get(k, 'N/A')
Get(doc, k) == IF doc[k].t = "absent" THEN S("N/A") ELSE doc[k]
\* x != 'N/A'
NotNA(x) == ~(x.t = "str" /\ x.v = "N/A")
\* f"{x}"
Str(x) == x.v

\* 'T' in date, and date.split('T')[0], for the date texts of the documents
HasT(v) == v = "2024-03-05T00:00:00"
DatePart(v) == IF v = "2024-03-05T00:00:00" THEN "2024-03-05" ELSE v

\* f"{x:,.2f}" for the numbers of the documents
Fmt2f(v) ==
    CASE v = "1200.5" -> "1,200.50"
      [] v = "40" -> "40.00"
      [] OTHER -> v

(***************************************************************************)
(* The search backend as the Elasticsearch client shows it.  An outcome is  *)
(* [ok, exc, val]: ok = FALSE means the client call raised exc.  up tells   *)
(* whether the backend is reachable at the moment of the call.              *)
(***************************************************************************)
Queries == {"widgets", "zzz"}

\* the documents of the backend that match a query, best first
Matching(q) == IF q = "widgets" /\ indexExists THEN index ELSE << >>

\* es.ping(): the client answers False for a transport error; any other
\* failure of the call is raised
PingOutcomes(up) ==
    IF up THEN {[ok |-> TRUE, exc |-> << >>, val |-> TRUE]}
    ELSE {[ok |-> TRUE, exc |-> << >>, val |-> FALSE],
          [ok |-> FALSE, exc |-> <<"Connection refused">>, val |-> FALSE]}

\* es.indices.exists(index=index)
IndicesExists(up) ==
    IF up THEN [ok |-> TRUE, exc |-> << >>, val |-> indexExists]
    ELSE [ok |-> FALSE, exc |-> <<"Connection refused">>, val |-> FALSE]

\* es.count(index=..., body=match_all)['count']
EsCount(up) ==
    IF ~up THEN [ok |-> FALSE, exc |-> <<"Connection refused">>, val |-> 0]
    ELSE IF ~indexExists THEN [ok |-> FALSE, exc |-> <<"index_not_found_exception">>, val |-> 0]
    ELSE [ok |-> TRUE, exc |-> << >>, val |-> Len(index)]

\* es.search(index=os.getenv("ELASTIC_INDEX"), body=req)["hits"]["hits"]:
\* the first req.size matching documents.  An unset index name searches all
\* indices; a named index that does not exist and a negative size are errors.
EsSearch(req, up) ==
    IF ~up THEN [ok |-> FALSE, exc |-> <<"Connection refused">>, val |-> << >>]
    ELSE IF envIndexSet /\ ~indexExists
        THEN [ok |-> FALSE, exc |-> <<"index_not_found_exception">>, val |-> << >>]
    ELSE IF req.size < 0
        THEN [ok |-> FALSE, exc |-> <<"illegal_argument_exception">>, val |-> << >>]
    ELSE [ok |-> TRUE, exc |-> << >>,
          val |-> SubSeq(Matching(req.query), 1, Min(Len(Matching(req.query)), req.size))]

(***************************************************************************)
(* Tool arguments.  A payload is the validated argument mapping the agent   *)
(* hands to a tool: "query" always, "dates" and "size" when supplied.       *)
(***************************************************************************)
SizeArgs == {-1, 0, 1, 2, 3, DefaultSize, DefaultSize + 1}
DateArgs == {"2020", "2020-01-01 to 2020-12-31"}

Payloads ==
    [query : Queries] \cup [query : Queries, size : SizeArgs]
    \cup [query : Queries, dates : DateArgs]
    \cup [query : Queries, dates : DateArgs, size : SizeArgs]

Has(p, k) == k \in DOMAIN p

\* RAGSearchInput of src/server.py: query, dates = None, size = 10
ServerRAGSearchInput(p) ==
    [query |-> p.query,
     dates |-> IF Has(p, "dates") THEN p.dates ELSE "None",
     size  |-> IF Has(p, "size") THEN p.size ELSE DefaultSize]

\* RAGSearchInput of src/chat.py: query, dates = None; other keys are ignored
CliRAGSearchInput(p) ==
    [query |-> p.query,
     dates |-> IF Has(p, "dates") THEN p.dates ELSE "None"]

(***************************************************************************)
(* src/server.py: the tool handlers of the web variant.                     *)
(***************************************************************************)
\* es_ping, for one outcome of es.ping()
ServerEsPing(o) ==
    IF o.ok THEN BoolVal(o.val)
    ELSE StrVal(<<"Error pinging Elasticsearch: ">> \o o.exc)

\* es_doc_count
ServerEsDocCount(up) ==
    IF ~envIndexSet THEN StrVal(<<"Error: ELASTIC_INDEX not set in environment.">>)
    ELSE IF ~IndicesExists(up).ok
        THEN StrVal(<<"Error fetching document count: ">> \o IndicesExists(up).exc)
    ELSE IF ~IndicesExists(up).val
        THEN StrVal(<<"Error: Index '", "trade", "' does not exist.">>)
    ELSE IF ~EsCount(up).ok
        THEN StrVal(<<"Error fetching document count: ">> \o EsCount(up).exc)
    ELSE StrVal(<<"Index '", "trade", "' contains ", ToString(EsCount(up).val),
                  " documents.">>)

\* ConversationBufferMemory.buffer with the prefixes the memory of
\* src/server.py:26 is built with (none given: "Human" and "AI"):
\* one "<prefix>: <content>" per message, joined by "\n"
RolePrefix(role) == IF role = "user" THEN "Human:" ELSE "AI:"
BufferLine(m) == <<RolePrefix(m.role), " ">> \o m.content
Buffer(mem) == Join(<<"\n">>, [i \in 1..Len(mem) |-> BufferLine(mem[i])])

\* last_user_message
LastUserMessage(mem) ==
    LET lines == SplitLines(Strip(Buffer(mem)))
        user_lines == SelectSeq(lines, StartsWithUser)
    IN  IF user_lines /= << >>
        THEN StrVal(Strip(Tail(user_lines[Len(user_lines)])))
        ELSE StrVal(<<"No previous user message found.">>)

\* a request body that ignores the requested size
ServerSearchBodyFixedSize(input) ==
    [kind |-> "multi_match", query |-> input.query, fuzziness |-> "AUTO",
     size |-> DefaultSize, sort |-> <<"_score", "date">>]

\* a request body that filters on the dates argument when one was given
ServerSearchBodyWithDates(input) ==
    IF input.dates = "None"
    THEN [kind |-> "multi_match", query |-> input.query, fuzziness |-> "AUTO",
          size |-> input.size, sort |-> <<"_score", "date">>]
    ELSE [kind |-> "multi_match", query |-> input.query, fuzziness |-> "AUTO",
          size |-> input.size, sort |-> <<"_score", "date">>,
          filter |-> input.dates]

\* the body rag_search of src/server.py sends to es.search
ServerSearchBody(input) ==
    [kind |-> "multi_match", query |-> input.query, fuzziness |-> "AUTO",
     size |-> input.size, sort |-> <<"_score", "date">>]

\* one pass of the loop of rag_search: the summary line of hit idx, or the
\* exception raised while building it (the piece " -> " stands for the
\* non-ASCII arrow text of the source line)
Summary(idx, doc) ==
    LET product == Get(doc, "productDesc")
        trading_country == Get(doc, "tradingCountry")
        country == Get(doc, "countryName")
        date0 == Get(doc, "date")
        hs_code == Get(doc, "hSCode")
        registry == Get(doc, "registryNew")
        fob_value == Get(doc, "fOBValueUSD")
        quantity == Get(doc, "quantity")
        unit == Get(doc, "unit")
        date == IF NotNA(date0) /\ date0.t = "str" /\ HasT(date0.v)
                THEN S(DatePart(date0.v)) ELSE date0
        line == <<ToString(idx), ". ", Str(product)>>
                \o (IF NotNA(trading_country) /\ NotNA(country)
                    THEN <<" | Trade: ", Str(trading_country), " -> ", Str(country)>>
                    ELSE << >>)
                \o (IF NotNA(date) THEN <<" | Date: ", Str(date)>> ELSE << >>)
                \o (IF NotNA(fob_value) /\ NotNA(quantity) /\ NotNA(unit)
                    THEN <<" | Value: $", Fmt2f(Str(fob_value)), " USD | Qty: ",
                           Str(quantity), " ", Str(unit)>>
                    ELSE << >>)
                \o (IF NotNA(hs_code) THEN <<" | HS: ", Str(hs_code)>> ELSE << >>)
                \o (IF NotNA(registry) THEN <<" | Reg: ", Str(registry)>> ELSE << >>)
    IN  IF NotNA(date0) /\ date0.t = "num"
        THEN [ok |-> FALSE, exc |-> <<"argument of type 'int' is not iterable">>,
              text |-> << >>]
        ELSE IF NotNA(fob_value) /\ NotNA(quantity) /\ NotNA(unit) /\ fob_value.t = "str"
        THEN [ok |-> FALSE,
              exc |-> <<"Unknown format code 'f' for object of type 'str'">>,
              text |-> << >>]
        ELSE [ok |-> TRUE, exc |-> << >>, text |-> line]

\* a notice that compares with the default page size, not the requested one
TopNoticeAtDefault(n, size) ==
    IF n = DefaultSize
    THEN <<"\n", "\n", "Showing top ", ToString(n),
           " results. Would you like to see more documents or need specific information from any of these?">>
    ELSE << >>

\* the notice rag_search appends when len(summaries) == size
TopNotice(n, size) ==
    IF n = size
    THEN <<"\n", "\n", "Showing top ", ToString(n),
           " results. Would you like to see more documents or need specific information from any of these?">>
    ELSE << >>

\* the text rag_search of src/server.py builds from the hits of a search
\* that returned, or the "Search error" of the fault raised on the way
ServerFormat(input, hits) ==
    IF \E i \in 1..Len(hits) : ~hits[i].hasSource
    THEN StrVal(<<"Search error: ", "'_source'">>)
    ELSE LET docs == [i \in 1..Len(hits) |-> hits[i].source]
             sums == [i \in 1..Len(docs) |-> Summary(i, docs[i])]
             bad  == {i \in 1..Len(docs) : ~sums[i].ok}
             summaries == [i \in 1..Len(docs) |-> sums[i].text]
         IN  IF docs = << >> THEN StrVal(<<"No relevant documents found.">>)
             ELSE IF bad /= {}
             THEN StrVal(<<"Search error: ">>
                         \o sums[CHOOSE i \in bad : \A j \in bad : i <= j].exc)
             ELSE StrVal(<<"Found ", ToString(Len(summaries)),
                           " documents related to '", input.query, "':", "\n", "\n">>
                         \o Join(<<"\n">>, summaries)
                         \o TopNotice(Len(summaries), input.size))

\* rag_search of src/server.py
ServerRagSearch(input, up) ==
    LET res == EsSearch(ServerSearchBody(input), up)
    IN  IF ~res.ok THEN StrVal(<<"Search error: ">> \o res.exc)
        ELSE ServerFormat(input, res.val)

\* ElasticsearchStore(...).similarity_search(query, k=5): the embedding call
\* or the search may fail; a document's page_content is its "text" field
SemanticBody(input) == [kind |-> "knn", query |-> input.query, size |-> SemanticK]
PageContent(hit) == IF hit.source.text.t = "absent" THEN << >> ELSE <<hit.source.text.v>>
SimilarityOutcomes(input, up) ==
    {[ok |-> FALSE, exc |-> <<"embedding request failed">>, val |-> << >>, sent |-> FALSE]}
    \cup { LET res == EsSearch(SemanticBody(input), up)
           IN  IF res.ok /\ \E i \in 1..Len(res.val) : ~res.val[i].hasSource
               THEN [ok |-> FALSE, exc |-> <<"'_source'">>, val |-> res.val, sent |-> TRUE]
               ELSE [ok |-> res.ok, exc |-> res.exc, val |-> res.val, sent |-> TRUE] }

\* semantic_search, for one outcome of the similarity search
SemanticSearch(o) ==
    IF ~o.ok THEN StrVal(<<"Semantic search error: ">> \o o.exc)
    ELSE IF o.val /= << >>
    THEN StrVal(Join(<<"\n", "\n">>, [i \in 1..Len(o.val) |-> PageContent(o.val[i])]))
    ELSE StrVal(<<"No matching content found in semantic index.">>)

(***************************************************************************)
(* src/chat.py: the tool handlers of the command-line variant.              *)
(***************************************************************************)
\* es_ping, for one outcome of es.ping()
CliEsPing(o) == IF o.ok THEN BoolVal(o.val) ELSE Raise(o.exc)

\* the body rag_search of src/chat.py sends to es.search
CliSearchBody(input) == [kind |-> "match", query |-> input.query, size |-> CliSize]

\* rag_search of src/chat.py
CliRagSearch(input, up) ==
    LET res == EsSearch(CliSearchBody(input), up)
        hits == res.val
    IN  IF ~res.ok THEN Raise(res.exc)
        ELSE IF \E i \in 1..Len(hits) : ~hits[i].hasSource THEN Raise(<<"'_source'">>)
        ELSE IF \E i \in 1..Len(hits) : hits[i].source.content.t = "absent"
        THEN Raise(<<"'content'">>)
        ELSE IF \E i \in 1..Len(hits) : hits[i].source.content.t /= "str"
        THEN Raise(<<"sequence item 0: expected str instance, int found">>)
        ELSE StrVal(Join(<<"\n", "\n">>,
                         [i \in 1..Len(hits) |-> <<hits[i].source.content.v>>]))

(***************************************************************************)
(* Tool registry: the tools each variant gives to initialize_agent, and a   *)
(* run of a handler: the search requests it sent (reqs), whether its        *)
(* backend calls returned (ok), the hits a search returned, and the value   *)
(* the handler gave back or the exception that left it (result).            *)
(***************************************************************************)
Tools(v) ==
    IF v = "cli" THEN {"es_status", "RAG_Search"}
    ELSE {"es_status", "RAG_Search", "Semantic_Search", "es_doc_count", "last_user_message"}

SearchTools == {"RAG_Search", "Semantic_Search"}

ToolPayloads(tool) ==
    CASE tool = "RAG_Search" -> Payloads
      [] tool = "Semantic_Search" -> [query : Queries]
      [] OTHER -> {[input |-> ""]}

Run(reqs, ok, hits, result) ==
    [reqs |-> reqs, ok |-> ok, hits |-> hits, result |-> result]

ToolRuns(v, tool, p, up) ==
    CASE tool = "es_status" /\ v = "web" ->
            { Run(<< >>, o.ok /\ o.val, << >>, ServerEsPing(o)) : o \in PingOutcomes(up) }
      [] tool = "es_status" /\ v = "cli" ->
            { Run(<< >>, o.ok /\ o.val, << >>, CliEsPing(o)) : o \in PingOutcomes(up) }
      [] tool = "es_doc_count" ->
            { Run(<< >>, IndicesExists(up).ok /\ IndicesExists(up).val /\ EsCount(up).ok,
                  << >>, ServerEsDocCount(up)) }
      [] tool = "last_user_message" ->
            { Run(<< >>, TRUE, << >>, LastUserMessage(memory)) }
      [] tool = "RAG_Search" /\ v = "web" ->
            LET input == ServerRAGSearchInput(p)
                res == EsSearch(ServerSearchBody(input), up)
            IN  { Run(<<ServerSearchBody(input)>>, res.ok, res.val,
                      ServerRagSearch(input, up)) }
      [] tool = "RAG_Search" /\ v = "cli" ->
            LET input == CliRAGSearchInput(p)
                res == EsSearch(CliSearchBody(input), up)
            IN  { Run(<<CliSearchBody(input)>>, res.ok, res.val, CliRagSearch(input, up)) }
      [] tool = "Semantic_Search" ->
            { Run(IF o.sent THEN <<SemanticBody(p)>> ELSE << >>, o.ok, o.val,
                  SemanticSearch(o))
              : o \in SimilarityOutcomes(p, up) }

NoCall == [tool |-> "none", payload |-> [input |-> ""], up |-> TRUE,
           reqs |-> << >>, ok |-> TRUE, hits |-> << >>, result |-> StrVal(<< >>)]

Call(tool, p, up, run) ==
    [tool |-> tool, payload |-> p, up |-> up,
     reqs |-> run.reqs, ok |-> run.ok, hits |-> run.hits, result |-> run.result]

(***************************************************************************)
(* The agent (initialize_agent(..., memory=memory)) and the front doors.    *)
(* agent.run(text) lets the language model choose, step by step, a tool     *)
(* call or the final answer; a handler's exception and a failure of the     *)
(* model call leave agent.run as an exception; on a final answer the        *)
(* memory saves the utterance and the answer.                               *)
(***************************************************************************)
ExitWords == {<<"exit">>, <<"quit">>}

\* lines typed at the command-line prompt
Lines == {<<"find widgets">>, <<"EXIT">>, <<"quit">>}
\* user_input of a POST /chat body
Bodies == {<<"find widgets">>, <<"hi", "\n", "User:", " ", "there">>}

\* str(observation) as the agent sees a tool's value
Observation(val) == val.text

\* the final answers the language model may give: its own words, or the
\* last tool observation passed on
Answers(obs) == {<<"Here is what I found.">>} \cup (IF obs = << >> THEN {} ELSE {obs})

\* a memory that keeps the answers only
SaveAnswerOnly(mem, input, output) ==
    mem \o <<[role |-> "assistant", content |-> output]>>

\* memory.save_context(inputs, outputs) at the end of a successful agent.run
SaveContext(mem, input, output) ==
    mem \o <<[role |-> "user", content |-> input],
             [role |-> "assistant", content |-> output]>>

\* the response of chat_endpoint when agent.run raised e
ErrorResponse(exc) == <<"An error occurred: ">> \o exc

NoTurn == [end |-> "none", errs |-> {}]

\* the error texts a tool gave back for a failed backend call
ErrOf(run) == IF ~run.ok /\ run.result.tag = "str" THEN {run.result.text} ELSE {}

Init ==
    /\ variant \in {"cli", "web"}
    /\ indexExists = TRUE
    /\ envIndexSet = TRUE
    /\ index \in {<< >>, <<Hit(ShipmentDoc), Hit(NoteDoc)>>}
    /\ memory = << >>
    /\ pc = "idle"
    /\ userInput = << >>
    /\ steps = 0
    /\ lastObs = << >>
    /\ lastCall = NoCall
    /\ lastTurn = NoTurn
    /\ readLog = << >>
    /\ fwdLog = << >>
    /\ outLog = << >>

\* agent.run(text) begins
StartTurn(text) ==
    /\ pc' = "agent"
    /\ userInput' = text
    /\ fwdLog' = Append(fwdLog, text)
    /\ steps' = 0
    /\ lastObs' = << >>
    /\ lastCall' = NoCall
    /\ lastTurn' = [end |-> "running", errs |-> {}]

\* src/chat.py: one pass of the conversation loop up to agent.run
CliRead(line) ==
    /\ variant = "cli"
    /\ pc = "idle"
    /\ Len(readLog) < MaxTurns
    /\ readLog' = Append(readLog, line)
    /\ IF Lower(line) \in ExitWords
       THEN /\ pc' = "exited"
            /\ UNCHANGED <<userInput, fwdLog, steps, lastObs, lastCall, lastTurn>>
       ELSE StartTurn(line)
    /\ UNCHANGED <<variant, indexExists, envIndexSet, index, memory, outLog>>

\* src/chat.py: input() at the end of standard input raises EOFError
CliEOF ==
    /\ variant = "cli"
    /\ pc = "idle"
    /\ pc' = "crashed"
    /\ lastTurn' = [end |-> "eof", errs |-> {}]
    /\ UNCHANGED <<variant, indexExists, envIndexSet, index, memory,
                   userInput, steps, lastObs, lastCall, readLog, fwdLog, outLog>>

\* src/server.py: chat_endpoint receives a request
PostChat(text) ==
    /\ variant = "web"
    /\ pc = "idle"
    /\ Len(readLog) < MaxTurns
    /\ readLog' = Append(readLog, text)
    /\ StartTurn(text)
    /\ UNCHANGED <<variant, indexExists, envIndexSet, index, memory, outLog>>

\* agent.run is over: its locals are gone
EndRun ==
    /\ userInput' = << >>
    /\ steps' = 0
    /\ lastObs' = << >>

\* agent.run raised exc: chat_endpoint answers with the error response and
\* serves on; the loop of src/chat.py has no handler and the process ends
RunRaised(exc) ==
    /\ lastTurn' = [end |-> "raised", errs |-> lastTurn.errs]
    /\ IF variant = "web"
       THEN /\ outLog' = Append(outLog, ErrorResponse(exc))
            /\ pc' = "idle"
       ELSE /\ outLog' = outLog
            /\ pc' = "crashed"
    /\ EndRun
    /\ UNCHANGED memory

\* the payloads the agent of a chat session hands to a tool
ChatPayloads(tool) ==
    IF tool = "RAG_Search"
    THEN {[query |-> "widgets"], [query |-> "widgets", size |-> 1]}
    ELSE IF tool = "Semantic_Search" THEN {[query |-> "widgets"]}
    ELSE ToolPayloads(tool)

\* the agent calls a tool while the backend is reachable (up) or not; an
\* exception of the handler leaves agent.run
AgentCallTool(tool, p, up, run) ==
    /\ pc = "agent"
    /\ steps < MaxSteps
    /\ lastCall' = Call(tool, p, up, run)
    /\ IF run.result.tag = "raise"
       THEN RunRaised(run.result.text)
       ELSE /\ steps' = steps + 1
            /\ lastObs' = Observation(run.result)
            /\ lastTurn' = [lastTurn EXCEPT !.errs = @ \cup ErrOf(run)]
            /\ UNCHANGED <<pc, memory, outLog, userInput>>
    /\ UNCHANGED <<variant, indexExists, envIndexSet, index, readLog, fwdLog>>

\* the call of the language model fails
AgentFault ==
    /\ pc = "agent"
    /\ RunRaised(<<"model request failed">>)
    /\ lastCall' = NoCall
    /\ UNCHANGED <<variant, indexExists, envIndexSet, index, readLog, fwdLog>>

\* the agent gives its final answer; the memory saves the turn and the
\* front door emits the answer
AgentFinish(answer) ==
    /\ pc = "agent"
    /\ answer \in Answers(lastObs)
    /\ memory' = SaveContext(memory, userInput, answer)
    /\ outLog' = Append(outLog, answer)
    /\ pc' = "idle"
    /\ lastTurn' = [end |-> "answer", errs |-> lastTurn.errs]
    /\ lastCall' = NoCall
    /\ EndRun
    /\ UNCHANGED <<variant, indexExists, envIndexSet, index, readLog, fwdLog>>

Next ==
    \/ \E line \in Lines : CliRead(line)
    \/ CliEOF
    \/ \E text \in Bodies : PostChat(text)
    \/ \E tool \in Tools(variant) : \E p \in ChatPayloads(tool) : \E up \in BOOLEAN :
           \E run \in ToolRuns(variant, tool, p, up) : AgentCallTool(tool, p, up, run)
    \/ AgentFault
    \/ \E answer \in Answers(lastObs) : AgentFinish(answer)

Spec == Init /\ [][Next]_vars

(***************************************************************************)
(* The tool handlers called as plain functions, over backends of up to      *)
(* MaxHits matching documents of which at most one is not as the formatter  *)
(* expects.                                                                 *)
(***************************************************************************)
BaseIndex(r) == [i \in 1..r |-> IF i % 2 = 1 THEN Hit(ShipmentDoc) ELSE Hit(NoteDoc)]

ToolIndexes ==
    {BaseIndex(r) : r \in 0..MaxHits}
    \cup {[BaseIndex(r) EXCEPT ![k] = h] :
            r \in 1..MaxHits, k \in 1..MaxHits, h \in OddHits}

SampleMemory == SaveContext(<< >>, <<"find widgets">>, <<"Here is what I found.">>)

ToolConfigs ==
    {[index |-> ix, exists |-> TRUE, env |-> TRUE, mem |-> << >>] : ix \in ToolIndexes}
    \cup {[index |-> BaseIndex(2), exists |-> e, env |-> v, mem |-> m] :
            e \in BOOLEAN, v \in BOOLEAN, m \in {<< >>, SampleMemory}}

InitTools ==
    /\ variant \in {"cli", "web"}
    /\ \E c \in ToolConfigs :
          /\ index = c.index
          /\ indexExists = c.exists
          /\ envIndexSet = c.env
          /\ memory = c.mem
    /\ pc = "direct"
    /\ userInput = << >>
    /\ steps = 0
    /\ lastObs = << >>
    /\ lastCall = NoCall
    /\ lastTurn = NoTurn
    /\ readLog = << >>
    /\ fwdLog = << >>
    /\ outLog = << >>

\* a handler is called with payload p while the backend is reachable or not
DirectCall(tool, p, up, run) ==
    /\ pc = "direct"
    /\ pc' = "returned"
    /\ lastCall' = Call(tool, p, up, run)
    /\ UNCHANGED <<variant, indexExists, envIndexSet, index, memory, userInput,
                   steps, lastObs, lastTurn, readLog, fwdLog, outLog>>

NextTools ==
    \E tool \in Tools(variant) : \E p \in ToolPayloads(tool) : \E up \in BOOLEAN :
        \E run \in ToolRuns(variant, tool, p, up) : DirectCall(tool, p, up, run)

SpecTools == InitTools /\ [][NextTools]_vars

(***************************************************************************)
(* Several POST /chat requests in flight against the one memory.            *)
(* chat_endpoint is a coroutine whose body calls agent.run without an       *)
(* await: once the event loop has begun a handler it runs nothing else      *)
(* until the handler returns.  A request is in flight from its arrival      *)
(* (readLog) until its response (outLog); which of the waiting requests     *)
(* the event loop hands to chat_endpoint next is the server's choice.       *)
(* memory.save_context appends the user turn and then the assistant turn.   *)
(***************************************************************************)
\* user_input of the requests in flight, one text per request
ConcBodies == {<<"find widgets">>, <<"count documents">>, <<"what did I ask?">>}

\* the tools the agent uses while requests are in flight: the one that reads
\* the shared memory and the connectivity check
ConcTools == {"last_user_message", "es_status"}

\* the requests that have arrived and that chat_endpoint has not begun
Waiting == {readLog[i] : i \in 1..Len(readLog)} \ {fwdLog[i] : i \in 1..Len(fwdLog)}

\* a handler that could begin while another one is running
HandlerMayStartAnyTime == pc \in {"idle", "agent", "saving"}

\* the event loop is free to begin a handler: no chat_endpoint call is running
HandlerMayStart == pc = "idle"

\* chat_memory.add_user_message / add_ai_message, the two appends of save_context
SaveUser(mem, input) == Append(mem, [role |-> "user", content |-> input])
SaveAnswer(mem, output) == Append(mem, [role |-> "assistant", content |-> output])

InitConc ==
    /\ variant = "web"
    /\ indexExists = TRUE
    /\ envIndexSet = TRUE
    /\ index = <<Hit(ShipmentDoc), Hit(NoteDoc)>>
    /\ memory = << >>
    /\ pc = "idle"
    /\ userInput = << >>
    /\ steps = 0
    /\ lastObs = << >>
    /\ lastCall = NoCall
    /\ lastTurn = NoTurn
    /\ readLog = << >>
    /\ fwdLog = << >>
    /\ outLog = << >>

\* a request reaches the server, whatever the server is doing
ConcArrive(text) ==
    /\ Len(readLog) < MaxTurns
    /\ \A i \in 1..Len(readLog) : readLog[i] /= text
    /\ readLog' = Append(readLog, text)
    /\ UNCHANGED <<variant, indexExists, envIndexSet, index, memory, pc, userInput,
                   steps, lastObs, lastCall, lastTurn, fwdLog, outLog>>

\* the event loop begins chat_endpoint for a waiting request
ConcStart(text) ==
    /\ HandlerMayStart
    /\ text \in Waiting
    /\ StartTurn(text)
    /\ UNCHANGED <<variant, indexExists, envIndexSet, index, memory, readLog, outLog>>

\* the agent has its final answer: save_context appends the user turn
ConcSaveUser(answer) ==
    /\ pc = "agent"
    /\ answer \in Answers(lastObs)
    /\ memory' = SaveUser(memory, userInput)
    /\ lastObs' = answer
    /\ pc' = "saving"
    /\ UNCHANGED <<variant, indexExists, envIndexSet, index, userInput, steps,
                   lastCall, lastTurn, readLog, fwdLog, outLog>>

\* save_context appends the assistant turn, agent.run returns and
\* chat_endpoint responds
ConcSaveAnswer ==
    /\ pc = "saving"
    /\ memory' = SaveAnswer(memory, lastObs)
    /\ outLog' = Append(outLog, lastObs)
    /\ pc' = "idle"
    /\ lastTurn' = [end |-> "answer", errs |-> lastTurn.errs]
    /\ lastCall' = NoCall
    /\ EndRun
    /\ UNCHANGED <<variant, indexExists, envIndexSet, index, readLog, fwdLog>>

NextConc ==
    \/ \E text \in ConcBodies : ConcArrive(text)
    \/ \E text \in ConcBodies : ConcStart(text)
    \/ \E tool \in ConcTools : \E p \in ChatPayloads(tool) : \E up \in BOOLEAN :
           \E run \in ToolRuns(variant, tool, p, up) : AgentCallTool(tool, p, up, run)
    \/ AgentFault
    \/ \E answer \in Answers(lastObs) : ConcSaveUser(answer)
    \/ ConcSaveAnswer

\* the server keeps running: a step that can be taken is taken
SpecConc == InitConc /\ [][NextConc]_vars /\ WF_vars(NextConc)

(***************************************************************************)
(* Reading a tool's text.                                                   *)
(***************************************************************************)
Last(q) == q[Len(q)]

\* the lines "<n>. ..." of a text, in order
IsEntry(line) ==
    /\ Len(line) >= 3
    /\ line[2] = ". "
    /\ \E k \in 0..(MaxHits + 1) : line[1] = ToString(k)
EntryNumber(line) == CHOOSE k \in 0..(MaxHits + 1) : line[1] = ToString(k)
Entries(text) == SelectSeq(SplitLines(text), IsEntry)

HasNotice(text) == \E i \in 1..Len(text) : text[i] = "Showing top "
IsSearchError(text) == text /= << >> /\ text[1] = "Search error: "
BeginsErrorPinging(text) == text /= << >> /\ text[1] = "Error pinging Elasticsearch: "

\* the last call was RAG_Search of src/server.py
WebRag == lastCall.tool = "RAG_Search" /\ variant = "web"
\* its requested size and the documents the backend holds for its query
ReqSize == ServerRAGSearchInput(lastCall.payload).size
Held == Matching(lastCall.payload.query)
\* a fault was raised inside it: the search failed or a returned hit is odd
Faulted == ~lastCall.ok \/ \E i \in 1..Len(lastCall.hits) : lastCall.hits[i] \in OddHits

(***************************************************************************)
(* Claims checked under SpecTools.                                          *)
(***************************************************************************)

\* C1: every tool handler of both variants returns a value for every
\* argument and backend outcome; no exception leaves a handler.
C1_HandlersNeverRaise == lastCall.result.tag /= "raise"

\* C3: a search tool whose backend search returned no hits gives back a
\* non-empty "no documents found" text, never the empty string.
C3_EmptyHitsGiveText ==
    (lastCall.tool \in SearchTools /\ lastCall.reqs /= << >> /\ lastCall.ok
        /\ lastCall.hits = << >>)
    => (lastCall.result.tag = "str" /\ lastCall.result.text /= << >>)

\* C4 as stated: for a query with requested size s >= 0 answered by a
\* reachable backend holding r matching documents (each hit with its
\* _source), the RAG_Search output has exactly min(r, s) entries, numbered
\* 1..min(r, s).
C4_EntriesAlwaysMinRS ==
    (WebRag /\ lastCall.ok /\ ReqSize >= 0
        /\ \A i \in 1..Len(lastCall.hits) : lastCall.hits[i].hasSource)
    => LET entries == Entries(lastCall.result.text)
       IN  /\ Len(entries) = Min(Len(Held), ReqSize)
           /\ \A i \in 1..Len(entries) : EntryNumber(entries[i]) = i

\* C4 amended: unless a fault is raised inside the call, the RAG_Search
\* output has exactly min(r, s) entries, numbered 1..min(r, s), entry i
\* showing the i-th hit the backend returned; when a fault is raised the
\* output is the "Search error: ..." text and has no entry.
C4_EntriesMinRSUnlessFault ==
    WebRag =>
       LET entries == Entries(lastCall.result.text)
       IN  IF Faulted
           THEN IsSearchError(lastCall.result.text) /\ entries = << >>
           ELSE /\ lastCall.hits = SubSeq(Held, 1, Min(Len(Held), ReqSize))
                /\ Len(entries) = Min(Len(Held), ReqSize)
                /\ \A i \in 1..Len(entries) :
                      /\ EntryNumber(entries[i]) = i
                      /\ entries[i][3] = Str(Get(Held[i].source, "productDesc"))

\* C4 witness: more documents match than were asked for, and the listing
\* stops at the requested size
C4_Witness ==
    /\ WebRag /\ ~Faulted
    /\ ReqSize >= 2 /\ Len(Held) > ReqSize
    /\ Len(Entries(lastCall.result.text)) = ReqSize

\* C5 as stated: the notice is appended if and only if the number of
\* returned hits equals the requested size (search returned, hits well formed).
C5_NoticeIffCountIsSize ==
    (WebRag /\ ~Faulted /\ ReqSize >= 0)
    => (HasNotice(lastCall.result.text) <=> Len(lastCall.hits) = ReqSize)

\* C5 amended: the notice is appended if and only if the call produced a
\* listing (at least one hit, no fault) and the number of hits equals the
\* requested size; the N of the notice is that number.
C5_NoticeIffListingFillsPage ==
    WebRag =>
       LET text == lastCall.result.text
       IN  /\ HasNotice(text)
                <=> (~Faulted /\ lastCall.hits /= << >> /\ Len(lastCall.hits) = ReqSize)
           /\ HasNotice(text) =>
                \E i \in 1..(Len(text) - 1) :
                    text[i] = "Showing top " /\ text[i + 1] = ToString(Len(lastCall.hits))

\* C5 witness: ten hits for the default size of ten, with the notice
C5_Witness ==
    /\ WebRag /\ ~Has(lastCall.payload, "size")
    /\ Len(lastCall.hits) = DefaultSize
    /\ HasNotice(lastCall.result.text)

\* C9: every search request a tool sends has a size between 1 and the
\* page cap of 10.
C9_RequestSizeBounded ==
    \A i \in 1..Len(lastCall.reqs) :
        lastCall.reqs[i].size >= 1 /\ lastCall.reqs[i].size <= DefaultSize

\* C10: es_status called while the backend is unreachable gives back a
\* string beginning with "Error pinging".
C10_UnreachablePingIsErrorString ==
    (lastCall.tool = "es_status" /\ ~lastCall.up)
    => (lastCall.result.tag = "str" /\ BeginsErrorPinging(lastCall.result.text))

(***************************************************************************)
(* Claims checked under Spec.                                               *)
(***************************************************************************)

\* C2: in both variants a failed agent call is caught at the front door,
\* answered with the "An error occurred" message, and the session goes on.
C2_AgentFaultCaught ==
    lastTurn.end = "raised"
    => /\ pc = "idle"
       /\ Len(outLog) = Len(fwdLog)
       /\ Head(Last(outLog)) = "An error occurred: "

\* C6: once a user turn is in the memory, last_user_message gives back
\* exactly the text of the last user turn appended.
C6_LastUserMessageIsLastUserTurn ==
    (lastCall.tool = "last_user_message" /\ memory /= << >>)
    => LET users == SelectSeq(memory, LAMBDA m : m.role = "user")
       IN  lastCall.result = StrVal(Last(users).content)

\* C7 as stated: after a POST /chat turn in which a tool's backend call
\* failed, the memory holds no record of the failure.
C7_FailureNotInMemory ==
    (variant = "web" /\ pc = "idle" /\ lastTurn.errs /= {})
    => \A i \in 1..Len(memory) : memory[i].content \notin lastTurn.errs

\* C7 amended: a POST /chat turn, whether or not a tool's backend call
\* failed in it, gives exactly one response, and the memory gains exactly
\* the turn's utterance and the assistant's answer (nothing when agent.run
\* raised): a tool's error text is kept only as far as the answer repeats it.
C7_TurnKeepsUtteranceAndAnswer ==
    [][(variant = "web" /\ pc = "agent" /\ pc' = "idle")
       => /\ outLog' = Append(outLog, Last(outLog'))
          /\ IF lastTurn'.end = "raised"
             THEN memory' = memory /\ Head(Last(outLog')) = "An error occurred: "
             ELSE memory' = memory \o <<[role |-> "user", content |-> userInput],
                                        [role |-> "assistant", content |-> Last(outLog')]>>]_vars

\* C7 witness: a turn with a failed backend call has ended and the memory
\* holds its utterance and an answer that does not repeat the error
C7_Witness ==
    /\ variant = "web" /\ pc = "idle"
    /\ lastTurn.end = "answer" /\ lastTurn.errs /= {}
    /\ Len(memory) = 2
    /\ memory[2].content \notin lastTurn.errs

\* C8: the command-line loop ends only on reading an exit word; every
\* line read before it was forwarded once, in order, and answered.
C8_LoopEndsOnlyOnExitWord ==
    (variant = "cli" /\ pc \in {"exited", "crashed"} /\ lastTurn.end /= "eof")
    => /\ readLog /= << >>
       /\ Lower(Last(readLog)) \in ExitWords
       /\ fwdLog = SubSeq(readLog, 1, Len(readLog) - 1)
       /\ Len(outLog) = Len(fwdLog)

(***************************************************************************)
(* Claims checked under SpecConc.                                           *)
(***************************************************************************)
\* some user turn of the log is followed by a turn that is not the answer
\* to it: a turn of another request lies between a request's two turns
ForeignTurnBetween ==
    \E i \in 1..(Len(memory) - 1) :
        /\ memory[i].role = "user"
        /\ ~(/\ memory[i + 1].role = "assistant"
             /\ \E n \in 1..Len(outLog) :
                   fwdLog[n] = memory[i].content /\ outLog[n] = memory[i + 1].content)

\* C11 as stated, as a property of the running server: with requests in
\* flight against the one memory, a state of the log is reached in which a
\* turn of one request lies between the two turns of another.
C11_TurnsInterleave == <>ForeignTurnBetween

\* C11 amended: the requests in flight share the one log and their turn
\* pairs land in the order the handlers run, not the order of arrival, but
\* no turn of one request ever lies between the user turn and the assistant
\* turn of another: a user turn is followed by its own answer, or is the
\* last turn of the log while its handler is between the two appends.
C11_NoForeignTurnBetween ==
    /\ ~ForeignTurnBetween
    /\ (memory /= << >> /\ Last(memory).role = "user")
          => (pc = "saving" /\ Last(memory).content = userInput)
    /\ \A i \in 1..Len(memory) :
          memory[i].role = "assistant" => (i > 1 /\ memory[i - 1].role = "user")

\* C11 witness: the request that arrived second is between its two appends
\* while the request that arrived first is still waiting
C11_Witness ==
    /\ pc = "saving"
    /\ Len(readLog) >= 2
    /\ userInput = readLog[2]
    /\ readLog[1] \in Waiting
    /\ Last(memory) = [role |-> "user", content |-> userInput]


(***************************************************************************)
(* C12: the dates argument of RAG_Search.                                   *)
(***************************************************************************)
\* the payloads that differ from p in "dates" only: dates left out, or any
\* of the date texts supplied
SameButDates(p) ==
    {[k \in DOMAIN p \ {"dates"} |-> p[k]]}
    \cup {[k \in DOMAIN p \cup {"dates"} |-> IF k = "dates" THEN d ELSE p[k]]
          : d \in DateArgs}

\* the fields a request body carries
BodyFields(req) == DOMAIN req

\* C12: after a call of RAG_Search, in either variant, a call that differs
\* from it in "dates" only sends the same search request, gets the same hits
\* and returns the same value, and the request carries no date filter: its
\* fields are those of the variant's fixed body.
C12_DatesHaveNoEffect ==
    (pc = "returned" /\ lastCall.tool = "RAG_Search") =>
        /\ Len(lastCall.reqs) = 1
        /\ BodyFields(lastCall.reqs[1]) =
               (IF variant = "web" THEN {"kind", "query", "fuzziness", "size", "sort"}
                ELSE {"kind", "query", "size"})
        /\ \A q \in SameButDates(lastCall.payload) :
               \A run \in ToolRuns(variant, "RAG_Search", q, lastCall.up) :
                   /\ run.reqs = lastCall.reqs
                   /\ run.hits = lastCall.hits
                   /\ run.result = lastCall.result

\* a web call with dates "2020" that lists the two documents dated 2024
C12_Witness ==
    /\ pc = "returned"
    /\ WebRag
    /\ Has(lastCall.payload, "dates")
    /\ lastCall.payload.dates = "2020"
    /\ lastCall.hits = <<Hit(ShipmentDoc), Hit(NoteDoc)>>
    /\ lastCall.result.tag = "str"
    /\ Len(Entries(lastCall.result.text)) = 2

====
